---- MODULE Spec2Model ----
(***************************************************************************)
(* Model of the time-tracker template builder plugin (src/unnamed/part_000, *)
(* the current version of src/main.ts).                                     *)
(*                                                                          *)
(* A JavaScript string is a sequence of one-character strings, so that      *)
(* split, join, substring, parseInt, template literals and the regular      *)
(* expression search are computed character by character.  A JavaScript     *)
(* number is a record [nan, val]: NaN is [nan |-> TRUE, val |-> 0].         *)
(* The value undefined is the one-element sequence <<"undefined">>, which   *)
(* is no string (its element is not one character).                         *)
(***************************************************************************)
EXTENDS Integers, Sequences, FiniteSets, TLC

VARIABLES
    settings,      \* MyPlugin.settings: [regexp, presetTasks, maxTimeInMinutes]
    data,          \* the record the host persists (loadData / saveData), or NullData
    writes,        \* saveData calls in flight: snapshots, oldest first
    activeEditor,  \* text of app.workspace.activeEditor, or Null without one
    statusBar,     \* text of statusBarItemEl
    modal,         \* the open modal: [kind, text, tasks], kind "none" when closed
    extraction,    \* latest getTimeTrackerTemplateInfo call: [by, text, regexp, threw, matches, infos]
    lastOp         \* latest operation: [name, threw, refreshed]: what ran, whether it
                   \* threw, whether it set the status bar

vars == <<settings, data, writes, activeEditor, statusBar, modal, extraction, lastOp>>

----------------------------------------------------------------------------
(* JavaScript values *)

Undefined == <<"undefined">>
\* null where a string is expected (no active editor)
Null == <<"null">>
\* null where a record is expected (loadData without a data file)
NullData == [null |-> TRUE]

Num(n) == [nan |-> FALSE, val |-> n]
NaN == [nan |-> TRUE, val |-> 0]

\* a + b and a - b on numbers: NaN is absorbing
NumAdd(a, b) == IF a.nan \/ b.nan THEN NaN ELSE Num(a.val + b.val)
NumSub(a, b) == IF a.nan \/ b.nan THEN NaN ELSE Num(a.val - b.val)
\* a === b on numbers: NaN equals nothing, itself included
StrictEq(a, b) == ~a.nan /\ ~b.nan /\ a.val = b.val

RECURSIVE Concat(_)
\* the concatenation of a sequence of sequences, by halves
Concat(ss) ==
    IF ss = <<>> THEN <<>>
    ELSE IF Len(ss) = 1 THEN ss[1]
    ELSE Concat(SubSeq(ss, 1, Len(ss) \div 2))
         \o Concat(SubSeq(ss, Len(ss) \div 2 + 1, Len(ss)))

\* the least element of a non-empty set of integers
Min(S) == CHOOSE x \in S : \A y \in S : x <= y

Digits == <<"0", "1", "2", "3", "4", "5", "6", "7", "8", "9">>

RECURSIVE NatToString(_)
NatToString(n) ==
    IF n < 10 THEN <<Digits[n + 1]>>
    ELSE NatToString(n \div 10) \o <<Digits[(n % 10) + 1]>>

\* `${x}` of a number
NumToString(x) ==
    IF x.nan THEN <<"N", "a", "N">>
    ELSE IF x.val < 0 THEN <<"-">> \o NatToString(-x.val)
    ELSE NatToString(x.val)

\* `${x}` of a string or undefined
ToStringValue(x) ==
    IF x = Undefined THEN <<"u", "n", "d", "e", "f", "i", "n", "e", "d">> ELSE x

----------------------------------------------------------------------------
(* String.prototype.split, Array.prototype.join, slice, substring *)

\* sep occurs in s at position i
OccursAt(s, sep, i) ==
    /\ i + Len(sep) - 1 <= Len(s)
    /\ \A k \in 1..Len(sep) : s[i + k - 1] = sep[k]

\* the positions from from on where sep occurs in s
Occurrences(s, sep, from) == {i \in from..Len(s) : OccursAt(s, sep, i)}

RECURSIVE SplitFrom(_, _, _)
RECURSIVE SplitAt(_, _, _, _)
\* the fields of s from position from on, where a field starts
SplitFrom(s, sep, from) == SplitAt(s, sep, from, Occurrences(s, sep, from))

\* the field starting at from ends at the first of the occurrences, if any
SplitAt(s, sep, from, occurrences) ==
    IF occurrences = {} THEN <<SubSeq(s, from, Len(s))>>
    ELSE <<SubSeq(s, from, Min(occurrences) - 1)>>
         \o SplitFrom(s, sep, Min(occurrences) + Len(sep))

\* s.split(sep), sep not empty: the separator is matched left to right, and
\* two adjacent separators enclose an empty field
Split(s, sep) == SplitFrom(s, sep, 1)

\* array.join(sep)
Join(array, sep) ==
    Concat([k \in 1..Len(array) |->
              IF k = 1 THEN array[k] ELSE sep \o array[k]])

\* array.slice(start, array.length), start counted from 0
Slice(array, start) == SubSeq(array, start + 1, Len(array))

\* s.substring(0, end): a negative end counts as 0
Substring0(s, end) == SubSeq(s, 1, IF end < 0 THEN 0 ELSE end)

\* array[i], i counted from 0: undefined beyond the end
At(array, i) == IF i + 1 <= Len(array) THEN array[i + 1] ELSE Undefined

----------------------------------------------------------------------------
(* parseInt *)

WhiteSpace == {" ", "\t", "\n", "\r"}

HexDigits == <<"0", "1", "2", "3", "4", "5", "6", "7", "8", "9",
               "a", "b", "c", "d", "e", "f">>
HexUpper == <<"0", "1", "2", "3", "4", "5", "6", "7", "8", "9",
              "A", "B", "C", "D", "E", "F">>

\* the value of digit c in the radix, or -1
DigitValue(c, radix) ==
    LET hits == {k \in 1..radix : HexDigits[k] = c \/ HexUpper[k] = c}
    IN IF hits = {} THEN -1 ELSE (CHOOSE k \in hits : TRUE) - 1

RECURSIVE SkipWhiteSpace(_, _)
SkipWhiteSpace(s, i) ==
    IF i <= Len(s) /\ s[i] \in WhiteSpace THEN SkipWhiteSpace(s, i + 1) ELSE i

RECURSIVE ParseDigits(_, _, _, _)
\* the longest run of digits from position i: [n, seen]
ParseDigits(s, i, radix, acc) ==
    IF i <= Len(s) /\ DigitValue(s[i], radix) >= 0
    THEN ParseDigits(s, i + 1, radix,
                     [n |-> acc.n * radix + DigitValue(s[i], radix), seen |-> TRUE])
    ELSE acc

\* parseInt(x): leading white space, a sign, 0x for radix 16, then the longest
\* run of digits; NaN when there is no digit.  undefined parses as "undefined".
parseInt(x) ==
    LET s == ToStringValue(x)
        i == SkipWhiteSpace(s, 1)
        neg == i <= Len(s) /\ s[i] = "-"
        j == IF i <= Len(s) /\ s[i] \in {"-", "+"} THEN i + 1 ELSE i
        hex == j + 1 <= Len(s) /\ s[j] = "0" /\ s[j + 1] \in {"x", "X"}
        r == ParseDigits(s, IF hex THEN j + 2 ELSE j, IF hex THEN 16 ELSE 10,
                         [n |-> 0, seen |-> FALSE])
    IN IF ~r.seen THEN NaN ELSE Num(IF neg THEN -r.n ELSE r.n)

----------------------------------------------------------------------------
(* new RegExp(pattern, "g") and String.prototype.matchAll.                 *)
(* The patterns modelled are sequences of terms, a term being an atom       *)
(* (a character, the dot, or a capturing group of terms) with an optional   *)
(* greedy quantifier * or ?.                                                *)

Quantifiers == {"*", "?"}
LineTerminators == {"\n", "\r"}

SyntaxError == [err |-> TRUE, terms |-> <<>>, pos |-> 0, groups |-> 0]

RECURSIVE ParseTerms(_, _, _, _)
\* the terms of p from position i up to the end or an unopened ")";
\* g capturing groups were opened before i
ParseTerms(p, i, g, acc) ==
    IF i > Len(p) \/ p[i] = ")"
    THEN [err |-> FALSE, terms |-> acc, pos |-> i, groups |-> g]
    ELSE IF p[i] \in Quantifiers THEN SyntaxError    \* nothing to repeat
    ELSE
      LET inner == ParseTerms(p, i + 1, g + 1, <<>>)
          atom ==
            IF p[i] = "("
            THEN IF inner.err \/ inner.pos > Len(p)
                 THEN SyntaxError                    \* unterminated group
                 ELSE [err |-> FALSE,
                       atom |-> [kind |-> "group", ch |-> "", idx |-> g + 1,
                                 sub |-> inner.terms],
                       pos |-> inner.pos + 1, groups |-> inner.groups]
            ELSE [err |-> FALSE,
                  atom |-> [kind |-> IF p[i] = "." THEN "any" ELSE "char",
                            ch |-> p[i], idx |-> 0, sub |-> <<>>],
                  pos |-> i + 1, groups |-> g]
      IN IF atom.err THEN SyntaxError
         ELSE LET quantified == atom.pos <= Len(p) /\ p[atom.pos] \in Quantifiers
                  term == [atom |-> atom.atom,
                           quant |-> IF quantified THEN p[atom.pos] ELSE "1"]
              IN ParseTerms(p, IF quantified THEN atom.pos + 1 ELSE atom.pos,
                            atom.groups, Append(acc, term))

\* new RegExp(pattern, "g"): a SyntaxError is [err |-> TRUE]
NewRegExp(pattern) ==
    LET r == ParseTerms(pattern, 1, 0, <<>>)
    IN IF r.err \/ r.pos <= Len(pattern)             \* unmatched ")"
       THEN SyntaxError
       ELSE r

\* the groups opened inside an atom lose their captures when it is (re)entered
RECURSIVE GroupsOf(_)
GroupsOf(atom) ==
    IF atom.kind # "group" THEN {}
    ELSE {atom.idx} \cup UNION {GroupsOf(atom.sub[k].atom) : k \in 1..Len(atom.sub)}

ResetCaptures(caps, atom) ==
    [k \in 1..Len(caps) |-> IF k \in GroupsOf(atom) THEN Undefined ELSE caps[k]]

\* the atom, a character or the dot, accepts the character c
Accepts(atom, c) ==
    IF atom.kind = "char" THEN c = atom.ch ELSE c \notin LineTerminators

\* the number of characters of s from pos on that the atom accepts in a row
Run(atom, s, pos) ==
    Cardinality({i \in pos..Len(s) : \A j \in pos..i : Accepts(atom, s[j])})

\* the ways a run of n characters from pos is taken, the longest first
RunWays(pos, n, caps) ==
    [k \in 1..(n + 1) |-> [pos |-> pos + n + 1 - k, caps |-> caps]]

RECURSIVE Match(_, _, _, _, _)
\* The ways node matches s at pos, in the order backtracking tries them: each
\* is [pos, caps], the position after the match and the captures.
\*   mode "atom":  node is an atom, matched once
\*   mode "star":  node is an atom, matched greedily any number of times: one
\*                 more iteration first (an empty iteration is refused), then
\*                 none; of a character or the dot, the longest run first
\*   mode "terms": node is [terms, i], the terms from the i-th on in sequence
Match(mode, node, s, pos, caps) ==
    CASE mode = "terms" /\ node.i > Len(node.terms) ->
           <<[pos |-> pos, caps |-> caps]>>
      [] mode = "terms" /\ node.i <= Len(node.terms) ->
           LET term == node.terms[node.i]
               reset == ResetCaptures(caps, term.atom)
               first ==
                 IF term.quant = "*" THEN Match("star", term.atom, s, pos, caps)
                 ELSE IF term.quant = "?"
                 THEN Match("atom", term.atom, s, pos, reset)
                      \o <<[pos |-> pos, caps |-> reset]>>
                 ELSE Match("atom", term.atom, s, pos, caps)
           IN Concat([k \in 1..Len(first) |->
                        Match("terms", [terms |-> node.terms, i |-> node.i + 1],
                              s, first[k].pos, first[k].caps)])
      [] mode = "star" /\ node.kind # "group" ->
           RunWays(pos, Run(node, s, pos), caps)
      [] mode = "star" /\ node.kind = "group" ->
           LET once == Match("atom", node, s, pos, ResetCaptures(caps, node))
           IN Concat([k \in 1..Len(once) |->
                        IF once[k].pos > pos
                        THEN Match("star", node, s, once[k].pos, once[k].caps)
                        ELSE <<>>])
              \o <<[pos |-> pos, caps |-> caps]>>
      [] mode = "atom" /\ node.kind # "group" ->
           IF pos <= Len(s) /\ Accepts(node, s[pos])
           THEN <<[pos |-> pos + 1, caps |-> caps]>> ELSE <<>>
      [] mode = "atom" /\ node.kind = "group" ->
           LET inner == Match("terms", [terms |-> node.sub, i |-> 1], s, pos, caps)
           IN [k \in 1..Len(inner) |->
                 [pos |-> inner[k].pos,
                  caps |-> [inner[k].caps EXCEPT
                              ![node.idx] = SubSeq(s, pos, inner[k].pos - 1)]]]

\* the first of the ways, if any: <<>> or <<[pos, caps]>>
FirstOf(ways) == IF ways = <<>> THEN <<>> ELSE <<Head(ways)>>

\* the match starting exactly at position start, if any
MatchAt(re, s, start) ==
    FirstOf(Match("terms", [terms |-> re.terms, i |-> 1], s, start,
                  [k \in 1..re.groups |-> Undefined]))

\* the match m found at index, as exec returns it
ExecAt(s, index, m) ==
    <<[index |-> index, end |-> Head(m).pos,
       array |-> <<SubSeq(s, index, Head(m).pos - 1)>> \o Head(m).caps]>>

\* starts are the positions where a match starts
ExecStep(re, s, starts) ==
    IF starts = {} THEN <<>>
    ELSE ExecAt(s, Min(starts), MatchAt(re, s, Min(starts)))

\* regex.exec(s) with lastIndex = from - 1: the leftmost match at or after from.
\* <<>> for null, else <<[index, end, array]>>, array[1] the matched substring
\* followed by one entry per capturing group.
Exec(re, s, from) ==
    ExecStep(re, s, {k \in from..(Len(s) + 1) : MatchAt(re, s, k) # <<>>})

\* lastIndex after match m: after an empty match it advances by one
AdvanceIndex(m) == IF m.end = m.index THEN m.end + 1 ELSE m.end

RECURSIVE MatchAllFrom(_, _, _)
RECURSIVE MatchAllStep(_, _, _)
\* the matches matchAll iterates over, from position from on
MatchAllFrom(re, s, from) == MatchAllStep(re, s, Exec(re, s, from))

\* m is the result of exec: the iteration ends at null
MatchAllStep(re, s, m) ==
    IF m = <<>> THEN <<>>
    ELSE m \o MatchAllFrom(re, s, AdvanceIndex(m[1]))

ArraysOf(ms) == [k \in 1..Len(ms) |-> ms[k].array]

\* [...s.matchAll(regex)]: the match arrays in order of occurrence
MatchAll(re, s) == ArraysOf(MatchAllFrom(re, s, 1))

----------------------------------------------------------------------------
(* The plugin's constants.  The grave accent cannot be written in a string  *)
(* of this language: the character is the value Backtick.                   *)

Backtick == "BACKTICK"

Space == <<" ">>
NewLine == <<"\n">>
PresetDelimiter == <<"_", "_", "_">>

DefaultRegexp == <<Backtick, "t", "t", " ", ".", "*", Backtick>>
DefaultMaxTimeInMinutes == 480

DEFAULT_SETTINGS ==
    [regexp |-> DefaultRegexp,
     presetTasks |-> <<>>,
     maxTimeInMinutes |-> Num(DefaultMaxTimeInMinutes)]

SettingsKeys == {"regexp", "presetTasks", "maxTimeInMinutes"}

----------------------------------------------------------------------------
(* MyPlugin: the pure methods *)

\* Object.assign({}, defaults, stored): the stored keys win; null adds nothing
ObjectAssign(defaults, stored) ==
    IF stored = NullData THEN defaults
    ELSE [k \in DOMAIN defaults \cup DOMAIN stored |->
            IF k \in DOMAIN stored THEN stored[k] ELSE defaults[k]]

\* the settings loadSettings assigns, given what loadData returns
loadSettings(stored) == ObjectAssign(DEFAULT_SETTINGS, stored)

\* saveSettings that hands nothing to saveData
saveSettingsDropped(pending, current) == pending

\* saveSettings: saveData is handed the settings as they are at the call
saveSettings(pending, current) == Append(pending, current)

\* the callback without the isNaN fallback, as in src/main.ts
TimeTrackerTemplateInfoOfUnchecked(v) ==
    LET array == Split(v, Space)
        textTemp == Join(Slice(array, 3), Space)
    IN [id |-> At(array, 1),
        time |-> parseInt(At(array, 2)),
        text |-> Substring0(textTemp, Len(textTemp) - 1)]

\* the callback of collection.map in getTimeTrackerTemplateInfo, v a string
TimeTrackerTemplateInfoOf(v) ==
    LET array == Split(v, Space)
        jiraId == At(array, 1)
        minutes == At(array, 2)
        textTemp == Join(Slice(array, 3), Space)
        text == Substring0(textTemp, Len(textTemp) - 1)
        minutesAsInt == parseInt(minutes)
    IN [id |-> jiraId,
        time |-> IF minutesAsInt.nan THEN Num(0) ELSE minutesAsInt,
        text |-> text]

\* [...inputText.matchAll(regex)].flat(): every entry of every match array
FlatMatches(matches) == Concat(matches)

\* a call that threw, matches being the match arrays it had found
Threw(matches) == [threw |-> TRUE, matches |-> matches, infos |-> <<>>]

\* collection.map(...): v.split throws on an entry that is undefined, a group
\* that took no part in its match
MapCollection(matches, collection) ==
    IF \E k \in 1..Len(collection) : collection[k] = Undefined THEN Threw(matches)
    ELSE [threw |-> FALSE,
          matches |-> matches,
          infos |-> [k \in 1..Len(collection) |->
                       TimeTrackerTemplateInfoOf(collection[k])]]

\* the records of the match arrays of inputText.matchAll(regex)
MapMatches(matches) == MapCollection(matches, FlatMatches(matches))

\* getTimeTrackerTemplateInfo: [threw, matches, infos], matches the match
\* arrays found on the way.  new RegExp throws when the pattern is no regular
\* expression.
getTimeTrackerTemplateInfo(inputText, regexp) ==
    IF NewRegExp(regexp).err THEN Threw(<<>>)
    ELSE MapMatches(MatchAll(NewRegExp(regexp), inputText))

RECURSIVE Reduce(_, _)
\* infos.reduce((accumulator, object) => accumulator + object.time, 0)
\* over the first n records, from left to right
Reduce(infos, n) ==
    IF n = 0 THEN Num(0)
    ELSE NumAdd(Reduce(infos, n - 1), infos[n].time)

\* calculateMinutes, given the infos of the text
calculateMinutes(infos) == Reduce(infos, Len(infos))

StatusPrefix ==
    <<"M", "i", "n", "u", "t", "e", "s", " ", "o", "n", " ",
      "f", "i", "l", "e", ":", " ", "'">>
StatusMax == <<"'", ".", " ", "M", ":", " ", "'">>
StatusDif == <<"'", ".", " ", "D", ":", " ", "'">>
Quote == <<"'">>

\* setMinutesTuStatusBar with the difference taken the other way round
setMinutesTuStatusBarSwapped(sum, max) ==
    IF StrictEq(sum, max)
    THEN StatusPrefix \o NumToString(sum) \o Quote
    ELSE StatusPrefix \o NumToString(sum) \o StatusMax \o NumToString(max)
         \o StatusDif \o NumToString(NumSub(sum, max)) \o Quote

\* the text setMinutesTuStatusBar sets, given the sum and the settings
setMinutesTuStatusBar(sum, max) ==
    LET dif == NumSub(max, sum)
    IN IF StrictEq(sum, max)
       THEN StatusPrefix \o NumToString(sum) \o Quote
       ELSE StatusPrefix \o NumToString(sum) \o StatusMax \o NumToString(max)
            \o StatusDif \o NumToString(dif) \o Quote

\* the line with its two separators exchanged
TemplateLineSwapped(value) ==
    ToStringValue(value.id) \o <<"_">> \o NumToString(value.time)
    \o <<"_", "_">> \o value.text

\* the line of one record in getTimeTrackerTemplate
TemplateLine(value) ==
    ToStringValue(value.id) \o <<"_", "_">> \o NumToString(value.time)
    \o <<"_">> \o value.text

\* getTimeTrackerTemplate
getTimeTrackerTemplate(info) ==
    Join([k \in 1..Len(info) |-> TemplateLine(info[k])], NewLine)

\* the callback keeping every line of two fields or more
PresetTaskOfAtLeastTwo(v) ==
    LET array == Split(v, PresetDelimiter)
    IN IF Len(array) >= 2 THEN <<[id |-> array[1], name |-> array[2]]>> ELSE <<>>

\* the callback of split("\n").map in getPresetTasks: <<>> for undefined
PresetTaskOf(v) ==
    LET array == Split(v, PresetDelimiter)
    IN IF Len(array) = 2 THEN <<[id |-> array[1], name |-> array[2]]>> ELSE <<>>

\* getPresetTasks: the filter drops the undefined entries
getPresetTasks(presetTasks) ==
    LET lines == Split(presetTasks, NewLine)
    IN Concat([k \in 1..Len(lines) |-> PresetTaskOf(lines[k])])

----------------------------------------------------------------------------
(* The plugin as a state machine: one action per handler.  A handler that   *)
(* throws leaves what it had not yet assigned as it was.                    *)

NoModal == [kind |-> "none", text |-> <<>>, tasks |-> <<>>]

\* if (text): undefined (no editor) and the empty string are falsy
Truthy(text) == text # Null /\ text # <<>>

\* the record of a call of getTimeTrackerTemplateInfo that returned r
ExtractionRecord(by, text, r) ==
    [by |-> by, text |-> text, regexp |-> settings["regexp"],
     threw |-> r.threw, matches |-> r.matches, infos |-> r.infos]

\* a call of getTimeTrackerTemplateInfo by the status refresh or the click
ExtractionOf(by, text) ==
    ExtractionRecord(by, text,
                     getTimeTrackerTemplateInfo(text, settings["regexp"]))

\* setMinutesTuStatusBar(text) once calculateMinutes has made the call e
SetStatusBar(name, e) ==
    /\ extraction' = e
    /\ statusBar' = IF e.threw THEN statusBar
                    ELSE setMinutesTuStatusBar(calculateMinutes(e.infos),
                                               settings["maxTimeInMinutes"])
    /\ lastOp' = [name |-> name, threw |-> e.threw, refreshed |-> ~e.threw]

\* setMinutesTuStatusBar(text) with the calls it makes
RefreshStatusBar(name, text) == SetStatusBar(name, ExtractionOf("status", text))

\* the click handler once getTimeTrackerTemplateInfo has made the call e
OpenTemplateModal(e) ==
    /\ extraction' = e
    /\ modal' = IF e.threw THEN modal
                ELSE [kind |-> "template",
                      text |-> getTimeTrackerTemplate(e.infos),
                      tasks |-> <<>>]
    /\ lastOp' = [name |-> "click", threw |-> e.threw, refreshed |-> FALSE]

\* the workspace makes editor (Null: none) the active one and fires file-open
onFileOpenEvent(editor) ==
    /\ modal.kind = "none"
    /\ activeEditor' = editor
    /\ IF editor # Null /\ Truthy(editor)
       THEN RefreshStatusBar("file-open", editor)
       ELSE /\ lastOp' = [name |-> "file-open", threw |-> FALSE, refreshed |-> FALSE]
            /\ UNCHANGED <<statusBar, extraction>>
    /\ UNCHANGED <<settings, data, writes, modal>>

\* the active editor's text becomes text and editor-change fires, info being
\* a MarkdownView or another MarkdownFileInfo
onEditorChangeEvent(text, isMarkdownView) ==
    /\ modal.kind = "none"
    /\ activeEditor # Null
    /\ activeEditor' = text
    /\ IF isMarkdownView
       THEN RefreshStatusBar("editor-change", text)
       ELSE /\ lastOp' = [name |-> "editor-change", threw |-> FALSE, refreshed |-> FALSE]
            /\ UNCHANGED <<statusBar, extraction>>
    /\ UNCHANGED <<settings, data, writes, modal>>

\* statusBarItemEl.onClickEvent
onClickEvent ==
    /\ modal.kind = "none"
    /\ IF Truthy(activeEditor)
       THEN OpenTemplateModal(ExtractionOf("click", activeEditor))
       ELSE /\ lastOp' = [name |-> "click", threw |-> FALSE, refreshed |-> FALSE]
            /\ UNCHANGED <<modal, extraction>>
    /\ UNCHANGED <<settings, data, writes, activeEditor, statusBar>>

\* the command open-preset-tasks-modal-command: an editorCallback
editorCallback ==
    /\ modal.kind = "none"
    /\ activeEditor # Null
    /\ modal' = [kind |-> "presetTasks", text |-> <<>>,
                 tasks |-> getPresetTasks(settings["presetTasks"])]
    /\ lastOp' = [name |-> "command", threw |-> FALSE, refreshed |-> FALSE]
    /\ UNCHANGED <<settings, data, writes, activeEditor, statusBar, extraction>>

\* the modal is closed
onClose ==
    /\ modal.kind # "none"
    /\ modal' = NoModal
    /\ lastOp' = [name |-> "close", threw |-> FALSE, refreshed |-> FALSE]
    /\ UNCHANGED <<settings, data, writes, activeEditor, statusBar, extraction>>

\* writes in flight the model follows at once
MaxPending == 2

\* an onChange handler of the settings tab up to its await: the field is
\* assigned and saveSettings is called
onChange(key, value) ==
    /\ modal.kind = "none"
    /\ Len(writes) < MaxPending
    /\ settings' = [settings EXCEPT ![key] = value]
    /\ writes' = saveSettings(writes, settings')
    /\ lastOp' = [name |-> key, threw |-> FALSE, refreshed |-> FALSE]
    /\ UNCHANGED <<data, activeEditor, statusBar, modal, extraction>>

regexpOnChange(value) == onChange("regexp", value)
presetTasksOnChange(value) == onChange("presetTasks", value)
maxTimeInMinutesOnChange(value) == onChange("maxTimeInMinutes", parseInt(value))

\* the host finishes the oldest saveData call: the record it was handed is
\* the persisted one, and the handler awaiting it ends
saveDataCompletes ==
    /\ writes # <<>>
    /\ data' = Head(writes)
    /\ writes' = Tail(writes)
    /\ lastOp' = [name |-> "saveData", threw |-> FALSE, refreshed |-> FALSE]
    /\ UNCHANGED <<settings, activeEditor, statusBar, modal, extraction>>

\* the state when onload has run, loadData having returned stored
onload(stored) ==
    /\ data = stored
    /\ settings = loadSettings(stored)
    /\ writes = <<>>
    /\ activeEditor = Null
    /\ statusBar = <<>>
    /\ modal = NoModal
    /\ extraction = [by |-> "none", text |-> <<>>, regexp |-> <<>>,
                     threw |-> FALSE, matches |-> <<>>, infos |-> <<>>]
    /\ lastOp = [name |-> "onload", threw |-> FALSE, refreshed |-> FALSE]

----------------------------------------------------------------------------
(* The environment: documents, edits and settings input *)

\* lines a document grows to by typing
MaxLines == 2
\* lines of a presetTasks text
MaxPresetLines == 3

Example ==
    <<Backtick, "t", "t", " ", "A", "B", "C", "-", "1", " ", "3", "0", " ",
      "d", "i", "d", " ", "w", "o", "r", "k", Backtick>>
TwoOnOneLine ==
    <<Backtick, "t", "t", " ", "A", " ", "5", " ", "x", Backtick, " ",
      Backtick, "t", "t", " ", "B", " ", "7", " ", "y", Backtick>>
DoubleSpace ==
    <<Backtick, "t", "t", " ", " ", "A", " ", "3", "0", " ", "x", Backtick>>
TabSeparated ==
    <<Backtick, "t", "t", " ", "A", "\t", "3", "0", " ", "x", Backtick>>
NegativeMinutes ==
    <<Backtick, "t", "t", " ", "A", " ", "-", "5", " ", "x", Backtick>>
NonNumericMinutes ==
    <<Backtick, "t", "t", " ", "A", " ", "x", "x", " ", "n", "o", "t", "e", Backtick>>
DigitsThenLetters ==
    <<Backtick, "t", "t", " ", "A", " ", "3", "0", "a", "b", "c", " ", "x", Backtick>>
IdOnly == <<Backtick, "t", "t", " ", "A", Backtick>>
NoAnnotation == <<"n", "o", " ", "a", "n", "n", "o", "t", "a", "t", "i", "o", "n">>
SecondEntry ==
    <<Backtick, "t", "t", " ", "B", " ", "4", "0", " ", "y", Backtick>>

GroupRegexp == <<Backtick, "t", "t", " ", "(", ".", "*", ")", Backtick>>
OptionalGroupRegexp ==
    <<Backtick, "t", "t", " ", ".", "*", Backtick, "(", "!", ")", "?">>
UnterminatedRegexp == <<"(">>
MarkerRegexp == <<"t", "t">>

Alpha == <<"A", "_", "_", "_", "A", "l", "p", "h", "a">>
Bad == <<"B", "A", "D">>
Beta == <<"B", "_", "_", "_", "B", "e", "t", "a">>
ThreeFields == <<"A", "_", "_", "_", "_", "B", "_", "_", "_">>
FourUnderscores == <<"A", "_", "_", "_", "_", "B">>

LineCount(text) == Len(Split(text, NewLine))

\* the texts an edit of text may leave: all of it deleted, or a line typed at
\* its end
Edits(text, typed) ==
    {<<>>} \cup {text \o NewLine \o l : l \in IF LineCount(text) < MaxLines
                                            THEN typed ELSE {}}

RECURSIVE TextsOf(_, _)
\* the texts of 1 to n of the lines
TextsOf(lines, n) ==
    IF n <= 1 THEN lines
    ELSE TextsOf(lines, n - 1)
         \cup {t \o NewLine \o l : t \in TextsOf(lines, n - 1), l \in lines}

----------------------------------------------------------------------------
(* The status bar: documents opened and edited, the budget changed *)

Files == {Null, <<>>, Example, NegativeMinutes}
TypedLines == {SecondEntry}
StoredData == {NullData, [maxTimeInMinutes |-> Num(30)]}
MaxTimeInput == {<<"3", "0">>, <<"a", "b", "c">>}

Init == \E stored \in StoredData : onload(stored)

Next ==
    \/ \E editor \in Files : onFileOpenEvent(editor)
    \/ \E text \in Edits(activeEditor, TypedLines), isMarkdownView \in BOOLEAN :
          onEditorChangeEvent(text, isMarkdownView)
    \/ onClickEvent
    \/ onClose
    \/ \E value \in MaxTimeInput : maxTimeInMinutesOnChange(value)
    \/ saveDataCompletes

Spec == Init /\ [][Next]_vars

----------------------------------------------------------------------------
(* The settings tab, beside every other operation of the plugin *)

SettingsFiles == {Null, Example}
SettingsStoredData ==
    {NullData,
     [maxTimeInMinutes |-> Num(30)],
     [regexp |-> GroupRegexp, presetTasks |-> Alpha, maxTimeInMinutes |-> Num(30)]}
RegexpInput == {DefaultRegexp, GroupRegexp}
PresetTasksInput == {Alpha}

InitSettings == \E stored \in SettingsStoredData : onload(stored)

NextSettings ==
    \/ \E editor \in SettingsFiles : onFileOpenEvent(editor)
    \/ \E text \in Edits(activeEditor, {}), isMarkdownView \in BOOLEAN :
          onEditorChangeEvent(text, isMarkdownView)
    \/ onClickEvent
    \/ editorCallback
    \/ onClose
    \/ \E value \in RegexpInput : regexpOnChange(value)
    \/ \E value \in PresetTasksInput : presetTasksOnChange(value)
    \/ \E value \in MaxTimeInput : maxTimeInMinutesOnChange(value)
    \/ saveDataCompletes

SpecSettings == InitSettings /\ [][NextSettings]_vars

----------------------------------------------------------------------------
(* Extraction and rendering over many documents and patterns *)

ParseFiles ==
    {Null, <<>>, Example, TwoOnOneLine, DoubleSpace, TabSeparated,
     NegativeMinutes, NonNumericMinutes, DigitsThenLetters, IdOnly, NoAnnotation}
ParseTypedLines == {SecondEntry, NoAnnotation}
ParseRegexps ==
    {DefaultRegexp, GroupRegexp, OptionalGroupRegexp, UnterminatedRegexp,
     MarkerRegexp}
ParseStoredData == {[regexp |-> r] : r \in ParseRegexps}

InitParse == \E stored \in ParseStoredData : onload(stored)

NextParse ==
    \/ \E editor \in ParseFiles : onFileOpenEvent(editor)
    \/ \E text \in Edits(activeEditor, ParseTypedLines), isMarkdownView \in BOOLEAN :
          onEditorChangeEvent(text, isMarkdownView)
    \/ onClickEvent
    \/ onClose

SpecParse == InitParse /\ [][NextParse]_vars

----------------------------------------------------------------------------
(* The preset tasks over many presetTasks texts *)

PresetLines == {<<>>, Alpha, Bad, Beta, ThreeFields, FourUnderscores}
PresetStoredData ==
    {[presetTasks |-> t] : t \in TextsOf(PresetLines, MaxPresetLines)}
PresetFiles == {Null, <<>>, NoAnnotation}

InitPreset == \E stored \in PresetStoredData : onload(stored)

NextPreset ==
    \/ \E editor \in PresetFiles : onFileOpenEvent(editor)
    \/ editorCallback
    \/ onClose

SpecPreset == InitPreset /\ [][NextPreset]_vars

----------------------------------------------------------------------------
(* Properties *)

\* the latest call of getTimeTrackerTemplateInfo returned
Returned == extraction.by # "none" /\ ~extraction.threw

\* the match arrays of the latest call, its pattern being a regular expression
LatestMatches == extraction.matches

\* the entries the latest call mapped to records
LatestCollection == FlatMatches(extraction.matches)

ExampleInfo ==
    [id |-> <<"A", "B", "C", "-", "1">>,
     time |-> Num(30),
     text |-> <<"d", "i", "d", " ", "w", "o", "r", "k">>]

\* the status text of a document text under the current settings
StatusOf(text) ==
    setMinutesTuStatusBar(
        calculateMinutes(getTimeTrackerTemplateInfo(text, settings["regexp"]).infos),
        settings["maxTimeInMinutes"])

\* C1: after a document-open or a document-change event the status bar shows
\* the status text of the active document's current text, whatever that text
\* is, the empty text included.
C1_StatusShowsLatestText ==
    (lastOp.name \in {"file-open", "editor-change"} /\ activeEditor # Null)
    => statusBar = StatusOf(activeEditor)

\* C2: getTimeTrackerTemplateInfo returns one record per match of the pattern,
\* in order of occurrence, whatever the pattern (capture groups included), and
\* without a match the empty sequence, whose minutes sum to 0.
C2_OneRecordPerMatch ==
    Returned =>
      /\ Len(extraction.infos) = Len(LatestMatches)
      /\ \A k \in 1..Len(LatestMatches) :
            extraction.infos[k] = TimeTrackerTemplateInfoOf(At(At(LatestMatches, k - 1), 0))
      /\ LatestMatches = <<>> =>
            /\ extraction.infos = <<>>
            /\ calculateMinutes(extraction.infos) = Num(0)

RECURSIVE TokensFrom(_, _)
RECURSIVE TokensAt(_, _, _)
\* the tokens of s from position from on, where a token starts; any run of
\* white space separates two tokens
TokensFrom(s, from) ==
    TokensAt(s, from, {i \in from..Len(s) : s[i] \in WhiteSpace})

\* the token starting at from ends at the first of the white spaces, if any
TokensAt(s, from, spaces) ==
    IF spaces = {} THEN <<SubSeq(s, from, Len(s))>>
    ELSE <<SubSeq(s, from, Min(spaces) - 1)>>
         \o TokensFrom(s, SkipWhiteSpace(s, Min(spaces)))

Tokens(s) == TokensFrom(s, 1)

\* the minutes of a token: its integer, 0 when it has none
MinutesOf(token) == IF parseInt(token).nan THEN Num(0) ELSE parseInt(token)

\* the description of tokens: those from the fourth on, joined by one space,
\* without the last character
DescriptionOf(tokens) ==
    Substring0(Join(Slice(tokens, 3), Space), Len(Join(Slice(tokens, 3), Space)) - 1)

\* C3: the record of a matched substring has its second white-space token as
\* id, the integer of its third as minutes and the later tokens, joined by
\* one space and without the last character, as description; the example of
\* the specification yields (ABC-1, 30, did work).
C3_FieldsFromWhiteSpaceTokens ==
    (Returned /\ Len(extraction.infos) = Len(LatestMatches)) =>
      /\ \A k \in 1..Len(LatestMatches) :
            /\ extraction.infos[k].id = At(Tokens(At(At(LatestMatches, k - 1), 0)), 1)
            /\ extraction.infos[k].time = MinutesOf(At(Tokens(At(At(LatestMatches, k - 1), 0)), 2))
            /\ extraction.infos[k].text = DescriptionOf(Tokens(At(At(LatestMatches, k - 1), 0)))
      /\ (extraction.text = Example /\ extraction.regexp = DefaultRegexp)
            => extraction.infos = <<ExampleInfo>>

\* C4: a record whose minutes token (the third field of the string it is made
\* from, split at each space) is absent or has no integer has minutes 0; no
\* record has NaN minutes and the minutes of a document sum to a number; a call
\* fails only on a pattern that is no regular expression or on an entry that
\* is undefined, never on a minutes token.
C4_UnparsableMinutesAreZero ==
    /\ Returned =>
          /\ Len(extraction.infos) = Len(LatestCollection)
          /\ \A k \in 1..Len(extraction.infos) :
                /\ ~extraction.infos[k].time.nan
                /\ parseInt(At(Split(At(LatestCollection, k - 1), Space), 2)).nan
                      => extraction.infos[k].time = Num(0)
          /\ ~calculateMinutes(extraction.infos).nan
    /\ extraction.threw =>
          \/ NewRegExp(extraction.regexp).err
          \/ \E k \in 1..Len(LatestCollection) : At(LatestCollection, k - 1) = Undefined

\* a call mapped NonNumericMinutes, whose minutes token is xx, to 0 minutes
C4_Witness ==
    /\ Returned
    /\ extraction.text = NonNumericMinutes
    /\ extraction.regexp = DefaultRegexp
    /\ Len(extraction.infos) = 1
    /\ extraction.infos[1].time = Num(0)

\* C5: every record returned has minutes that are a non-negative integer.
C5_MinutesNonNegative ==
    Returned =>
      \A k \in 1..Len(extraction.infos) :
         ~extraction.infos[k].time.nan /\ extraction.infos[k].time.val >= 0

RECURSIVE SumOfMinutes(_, _)
\* the arithmetic sum of the minutes of the first n records
SumOfMinutes(infos, n) ==
    IF n = 0 THEN 0 ELSE SumOfMinutes(infos, n - 1) + infos[n].time.val

LatestSum == SumOfMinutes(extraction.infos, Len(extraction.infos))

StatusThirty ==
    <<"M", "i", "n", "u", "t", "e", "s", " ", "o", "n", " ",
      "f", "i", "l", "e", ":", " ", "'", "3", "0", "'">>
StatusSeventyOfThirty ==
    <<"M", "i", "n", "u", "t", "e", "s", " ", "o", "n", " ",
      "f", "i", "l", "e", ":", " ", "'", "7", "0", "'", ".", " ",
      "M", ":", " ", "'", "3", "0", "'", ".", " ",
      "D", ":", " ", "'", "-", "4", "0", "'">>

\* the status text of sum minutes under the budget max
ExpectedStatus(sum, max) ==
    IF ~max.nan /\ sum = max.val
    THEN StatusPrefix \o NatToString(sum) \o Quote
    ELSE StatusPrefix \o NumToString(Num(sum)) \o StatusMax \o NumToString(max)
         \o StatusDif
         \o (IF max.nan THEN <<"N", "a", "N">> ELSE NumToString(Num(max.val - sum)))
         \o Quote

\* C6: the status text a refresh sets is "Minutes on file: '{sum}'" when the
\* sum of the minutes of the records equals maxTimeInMinutes, and otherwise
\* "Minutes on file: '{sum}'. M: '{max}'. D: '{max - sum}'", D negative when
\* the sum is over the budget.
C6_StatusText ==
    lastOp.refreshed =>
      /\ statusBar = ExpectedStatus(LatestSum, settings["maxTimeInMinutes"])
      /\ (LatestSum = 30 /\ settings["maxTimeInMinutes"] = Num(30))
            => statusBar = StatusThirty
      /\ (LatestSum = 70 /\ settings["maxTimeInMinutes"] = Num(30))
            => statusBar = StatusSeventyOfThirty

\* a refresh showed 70 minutes over a budget of 30
C6_Witness ==
    /\ lastOp.refreshed
    /\ LatestSum = 70
    /\ settings["maxTimeInMinutes"] = Num(30)
    /\ statusBar = StatusSeventyOfThirty

\* C7: no operation throws, whatever the document text and the pattern.
C7_NeverThrows == ~lastOp.threw

\* the line of a record in the template
LineOf(info) ==
    ToStringValue(info.id) \o <<"_", "_">> \o NumToString(info.time) \o <<"_">>
    \o info.text

RECURSIVE TemplateOf(_, _)
\* the lines of the first n records, a newline between two of them
TemplateOf(infos, n) ==
    IF n = 0 THEN <<>>
    ELSE IF n = 1 THEN LineOf(infos[1])
    ELSE TemplateOf(infos, n - 1) \o <<"\n">> \o LineOf(infos[n])

ExampleTemplate ==
    <<"A", "B", "C", "-", "1", "_", "_", "3", "0", "_",
      "d", "i", "d", " ", "w", "o", "r", "k">>

\* C8: the template shown is one line "{id}__{minutes}_{description}" per
\* record, in order, with a newline between two lines and none at the end;
\* the record (ABC-1, 30, did work) gives ABC-1__30_did work.
C8_Template ==
    modal.kind = "template" =>
      /\ modal.text = TemplateOf(extraction.infos, Len(extraction.infos))
      /\ extraction.infos = <<ExampleInfo>> => modal.text = ExampleTemplate

\* the template of two records is shown
C8_Witness ==
    /\ modal.kind = "template"
    /\ extraction.regexp = DefaultRegexp
    /\ Len(extraction.infos) = 2
    /\ extraction.infos[1] = ExampleInfo

RECURSIVE DelimitersFrom(_, _)
\* the occurrences of the delimiter in line from position i on, counted from
\* left to right without overlap
DelimitersFrom(line, i) ==
    IF i + Len(PresetDelimiter) - 1 > Len(line) THEN 0
    ELSE IF SubSeq(line, i, i + Len(PresetDelimiter) - 1) = PresetDelimiter
         THEN 1 + DelimitersFrom(line, i + Len(PresetDelimiter))
         ELSE DelimitersFrom(line, i + 1)

\* the line has exactly two fields
TwoFields(line) == DelimitersFrom(line, 1) = 1

ExamplePresetTasks == Alpha \o NewLine \o Bad \o NewLine \o Beta
ExampleTasks ==
    <<[id |-> <<"A">>, name |-> <<"A", "l", "p", "h", "a">>],
      [id |-> <<"B">>, name |-> <<"B", "e", "t", "a">>]>>

\* the lines of the presetTasks setting that have exactly two fields
TwoFieldLines == SelectSeq(Split(settings["presetTasks"], NewLine), TwoFields)

\* C9: the preset tasks listed are, in the order of the configuration, one
\* (id, name) per line of exactly two fields, and nothing for another line;
\* A___Alpha, BAD, B___Beta gives (A, Alpha), (B, Beta).
C9_PresetTasks ==
    modal.kind = "presetTasks" =>
      /\ Len(modal.tasks) = Len(TwoFieldLines)
      /\ \A k \in 1..Len(TwoFieldLines) :
            /\ At(TwoFieldLines, k - 1) = modal.tasks[k].id \o PresetDelimiter \o modal.tasks[k].name
            /\ DelimitersFrom(modal.tasks[k].id \o <<"_", "_">>, 1) = 0
      /\ settings["presetTasks"] = ExamplePresetTasks => modal.tasks = ExampleTasks
      /\ settings["presetTasks"] = <<>> => modal.tasks = <<>>

\* the tasks of the example are listed
C9_Witness ==
    /\ modal.kind = "presetTasks"
    /\ settings["presetTasks"] = ExamplePresetTasks
    /\ Len(modal.tasks) = 2

\* the settings are the stored record merged over the defaults
AsLoaded ==
    \A key \in SettingsKeys :
       settings[key] = IF data # NullData /\ key \in DOMAIN data
                       THEN data[key] ELSE DEFAULT_SETTINGS[key]

C10_State ==
    /\ lastOp.name = "onload" => AsLoaded
    /\ lastOp.name \in SettingsKeys =>
          writes # <<>> /\ writes[Len(writes)] = settings
    /\ writes = <<>> => (data = settings \/ AsLoaded)
    /\ (lastOp.name = "saveData" /\ writes = <<>>) => data = settings

\* C10: at startup the settings are the stored record merged over the
\* defaults; every change of the settings tab hands the whole settings to
\* saveData, and once no save is in flight the persisted record is the
\* settings; nothing but a change handler of the settings tab modifies them.
C10_SettingsPersisted ==
    /\ []C10_State
    /\ [][settings' # settings => lastOp'.name \in SettingsKeys]_vars

\* changes were made, and the last save to complete persisted the settings:
\* a budget of 30, the preset task Alpha, the default pattern
C10_Witness ==
    /\ lastOp.name = "saveData"
    /\ writes = <<>>
    /\ data = settings
    /\ settings["maxTimeInMinutes"] = Num(30)
    /\ settings["regexp"] = DefaultRegexp /\ DOMAIN data = SettingsKeys
    /\ settings["presetTasks"] = Alpha

====
